---- MODULE Spec2Model ----
(***************************************************************************)
(* A model of cwl_utils: the multi-version document loader and save        *)
(* dispatch of cwl_utils/parser/__init__.py and the software-requirement   *)
(* walk of cwl_utils/cite_extract.py.                                      *)
(*                                                                         *)
(* Python values are tagged records.  A YAML mapping is                    *)
(* [tag |-> "map", m |-> f] with f a function from its keys; a serialized  *)
(* YAML string is [tag |-> "str", text |-> lines]; Python's None is the    *)
(* value None below.  Strings whose characters the code inspects (graph    *)
(* ids, cwlVersion values handed to version_split) are sequences of        *)
(* one-character strings.                                                  *)
(***************************************************************************)
EXTENDS Integers, Sequences, FiniteSets, TLC

VARIABLES
    pc,        \* loader: "ready" before the call, "returned" after it
    fn,        \* loader: the entry point that was called
    doc,       \* loader: the caller's document (mutated in place by the call)
    doc0,      \* loader: the document as it was given (history)
    args,      \* loader: baseuri, loadingOptions, id_, load_all, parser behaviour
    outcome,   \* loader: [exc, result] of the call
    calls,     \* loader: the calls made to the versioned parsers, in order
    sval,      \* save: the value given
    stop,      \* save: the top flag given
    sout,      \* save: [done, exc, val] of the call
    store,     \* traverse: the processes, by name
    top,       \* traverse: the process main() loaded
    stack,     \* traverse: the Python call stack of the walk
    out,       \* traverse: what was printed, in order
    visits,    \* traverse: how often traverse() was entered per process
    status     \* traverse: "run", "done" or "RecursionError"

vars == <<pc, fn, doc, doc0, args, outcome, calls, sval, stop, sout,
          store, top, stack, out, visits, status>>

(***************************************************************************)
(* Bounds of the model.                                                    *)
(***************************************************************************)
MaxGraphLen == 2

None == "<None>"
NoExc == "<no exception>"

Seqs(S, n) == UNION {[1..k -> S] : k \in 0..n}

(***************************************************************************)
(* The documents.                                                          *)
(***************************************************************************)
Main == <<"m", "a", "i", "n">>

\* the default of load_document's baseuri: cwl_v1_0.file_uri(os.getcwd()) + "/"
CwdUri == "file:///cwd/"

DeclaredVersions == {"v1.0", "v1.1", "v1.2", "v1.3"}
\* the elements of a $graph each carry a string id, as _get_id_from_graph
\* presupposes (el["id"].lstrip); several may share an id once stripped
ElemIds == {Main, <<"#">> \o Main, <<"#", "#", "t">>}
ElemClasses == {"CommandLineTool", "InputRecordSchema"}
GraphElems == [id : ElemIds, class : ElemClasses]
Graphs == Seqs(GraphElems, MaxGraphLen)

Mappings ==
    {[class |-> "CommandLineTool"]}
    \cup {[class |-> "CommandLineTool", cwlVersion |-> v] : v \in DeclaredVersions}
    \cup {("$graph" :> g) : g \in Graphs}
    \cup {("$graph" :> g) @@ ("cwlVersion" :> v) : g \in Graphs, v \in DeclaredVersions}

PyMap(m) == [tag |-> "map", m |-> m]
PyStr(t) == [tag |-> "str", text |-> t]
PyList == [tag |-> "list"]
PyNone == [tag |-> "none"]

\* key in yaml, for a mapping
HasKey(yaml, k) == k \in DOMAIN yaml.m

(***************************************************************************)
(* Serialized YAML.  A serialized mapping is the sequence of its           *)
(* <<key, value>> lines; the empty text parses to None.                    *)
(***************************************************************************)
KeyOrder == <<"cwlVersion", "class", "$graph">>

RECURSIVE DumpFrom(_, _)
DumpFrom(m, i) ==
    IF i > Len(KeyOrder) THEN <<>>
    ELSE (IF KeyOrder[i] \in DOMAIN m THEN <<(<<KeyOrder[i], m[KeyOrder[i]]>>)>> ELSE <<>>)
         \o DumpFrom(m, i + 1)

\* the serialized form of a YAML object
Dump(yaml) == IF yaml.tag = "map" THEN DumpFrom(yaml.m, 1) ELSE <<>>

\* yaml_no_ts().load(string)
yaml_load(text) ==
    IF text = <<>> THEN PyNone
    ELSE PyMap([k \in {text[i][1] : i \in 1..Len(text)} |->
                  text[CHOOSE i \in 1..Len(text) : text[i][1] = k][2]])

YamlObjects == {PyMap(m) : m \in Mappings} \cup {PyList, PyNone}
Docs == YamlObjects \cup {PyStr(Dump(y)) : y \in YamlObjects \ {PyList}}

(***************************************************************************)
(* _get_id_from_graph and cwl_version.                                     *)
(***************************************************************************)
RECURSIVE lstrip(_, _)
\* s.lstrip(c)
lstrip(s, c) == IF s # <<>> /\ Head(s) = c THEN lstrip(Tail(s), c) ELSE s

IdArgs == {[some |-> FALSE, val |-> <<>>], [some |-> TRUE, val |-> <<"t">>],
           [some |-> TRUE, val |-> <<"#", "t">>]}

MatchesLast(g, want) ==
    LET hits == {i \in 1..Len(g) : lstrip(g[i].id, "#") = want}
    IN  IF hits = {} THEN 0 ELSE CHOOSE i \in hits : \A j \in hits : j <= i

\* the index of the first element whose stripped id is want, 0 when there is none
Matches(g, want) ==
    LET hits == {i \in 1..Len(g) : lstrip(g[i].id, "#") = want}
    IN  IF hits = {} THEN 0 ELSE CHOOSE i \in hits : \A j \in hits : i <= j

\* [exc, idx]: the element returned is yaml["$graph"][idx]
_get_id_from_graph(yaml, id_) ==
    LET want == IF ~id_.some THEN Main ELSE id_.val
        i == Matches(yaml.m["$graph"], want)
    IN  IF i = 0
        THEN [exc |-> "GraphTargetMissingException",
              msg |-> "Tool file contains graph of multiple objects", idx |-> 0]
        ELSE [exc |-> NoExc, msg |-> None, idx |-> i]

cwl_version_lenient(yaml) ==
    IF yaml.tag # "map" THEN [exc |-> NoExc, msg |-> None, val |-> None]
    ELSE IF ~HasKey(yaml, "cwlVersion") THEN [exc |-> NoExc, msg |-> None, val |-> None]
    ELSE [exc |-> NoExc, msg |-> None, val |-> yaml.m["cwlVersion"]]

\* [exc, msg, val]
cwl_version(yaml) ==
    IF yaml.tag # "map"
    THEN [exc |-> "ValidationException", msg |-> "MutableMapping is required", val |-> None]
    ELSE IF ~HasKey(yaml, "cwlVersion") THEN [exc |-> NoExc, msg |-> None, val |-> None]
    ELSE [exc |-> NoExc, msg |-> None, val |-> yaml.m["cwlVersion"]]

(***************************************************************************)
(* The versioned parsers cwl_v1_0, cwl_v1_1 and cwl_v1_2 (generated code,  *)
(* the environment of the dispatch layer).  A parser either rejects the    *)
(* document or builds one object per process: a list for a $graph          *)
(* container, a single object otherwise.  Only Process classes have a      *)
(* cwlVersion attribute.                                                   *)
(***************************************************************************)
ProcessClasses == {"CommandLineTool", "Workflow", "ExpressionTool", "Operation"}
ParserBehaviours == {"accept", "reject"}

LoadedObject(parser, m) ==
    [parser |-> parser,
     id |-> IF "id" \in DOMAIN m THEN m["id"] ELSE <<>>,
     class |-> IF "class" \in DOMAIN m THEN m["class"] ELSE None,
     attrs |-> IF "class" \in DOMAIN m /\ m["class"] \in ProcessClasses
               THEN {"id", "cwlVersion"} ELSE {"name"},
     cwlVersion |-> IF "cwlVersion" \in DOMAIN m THEN m["cwlVersion"] ELSE None]

NoResult == [kind |-> "none"]
Single(o) == [kind |-> "obj", obj |-> o]
ListOf(os) == [kind |-> "list", items |-> os]

\* cwl_v1_x.load_document_by_yaml(yaml, uri, loadingOptions): [exc, msg, result]
versioned_load(parser, yaml, uri, lo, pb) ==
    IF pb = "reject"
    THEN [exc |-> "ValidationException", msg |-> "rejected by the parser",
          result |-> NoResult]
    ELSE IF HasKey(yaml, "$graph")
    THEN [exc |-> NoExc, msg |-> None,
          result |-> ListOf([i \in 1..Len(yaml.m["$graph"]) |->
                               LoadedObject(parser, yaml.m["$graph"][i])])]
    ELSE [exc |-> NoExc, msg |-> None, result |-> Single(LoadedObject(parser, yaml.m))]

(***************************************************************************)
(* load_document_by_yaml and the entry points that reach it.  Each returns *)
(* [exc, msg, result, calls, doc]: the exception raised (NoExc for none)   *)
(* and its message, the value returned, the parser calls made (each with   *)
(* what the parser gave back) and the caller's document after the call.    *)
(***************************************************************************)
Raise(e, msg, yaml) ==
    [exc |-> e, msg |-> msg, result |-> NoResult, calls |-> <<>>, doc |-> yaml]

SetVersionsAll(result, version) ==
    IF result.kind = "list"
    THEN ListOf([i \in 1..Len(result.items) |->
                   [result.items[i] EXCEPT !.cwlVersion = version]])
    ELSE result

\* lines 219-226: the loop over a MutableSequence result
SetVersions(result, version) ==
    IF result.kind = "list"
    THEN ListOf([i \in 1..Len(result.items) |->
                   IF "cwlVersion" \in result.items[i].attrs
                   THEN [result.items[i] EXCEPT !.cwlVersion = version]
                   ELSE result.items[i]])
    ELSE result

ParserOfShifted(version) ==
    IF version = "v1.0" THEN "cwl_v1_0"
    ELSE IF version = "v1.1" THEN "cwl_v1_2"
    ELSE IF version = "v1.2" THEN "cwl_v1_2"
    ELSE None

ParserOfDefault(version) ==
    IF version = "v1.0" THEN "cwl_v1_0"
    ELSE IF version = "v1.1" THEN "cwl_v1_1"
    ELSE "cwl_v1_2"

\* lines 200-217: the parser of a version, None when there is none
ParserOf(version) ==
    IF version = "v1.0" THEN "cwl_v1_0"
    ELSE IF version = "v1.1" THEN "cwl_v1_1"
    ELSE IF version = "v1.2" THEN "cwl_v1_2"
    ELSE None

\* lines 200-226, given the document to forward and the caller's document
Dispatch(version, fwd, after, uri, lo, pb) ==
    IF ParserOf(version) # None
    THEN LET r == versioned_load(ParserOf(version), fwd, uri, lo, pb)
             call == [parser |-> ParserOf(version), yaml |-> fwd, uri |-> uri,
                      lo |-> lo, ret |-> r]
         IN  IF r.exc # NoExc
             THEN [exc |-> r.exc, msg |-> r.msg, result |-> NoResult,
                   calls |-> <<call>>, doc |-> after]
             ELSE [exc |-> NoExc, msg |-> None,
                   result |-> SetVersions(r.result, version),
                   calls |-> <<call>>, doc |-> after]
    ELSE IF version = None
    THEN Raise("ValidationException", "could not get the cwlVersion", after)
    ELSE Raise("ValidationException", "Version error. Did not recognise", after)

load_document_by_yaml(yaml, uri, lo, id_, load_all, pb) ==
    LET v == cwl_version(yaml)
    IN  IF v.exc # NoExc THEN Raise(v.exc, v.msg, yaml)
        ELSE IF HasKey(yaml, "$graph") /\ ~load_all
        THEN LET g == _get_id_from_graph(yaml, id_)
             IN  IF g.exc # NoExc THEN Raise(g.exc, g.msg, yaml)
                 ELSE LET el == ("cwlVersion" :> v.val) @@ yaml.m["$graph"][g.idx]
                          after == PyMap([yaml.m EXCEPT
                                            !["$graph"] = [@ EXCEPT ![g.idx] = el]])
                      IN  Dispatch(v.val, PyMap(el), after, uri, lo, pb)
        ELSE Dispatch(v.val, yaml, yaml, uri, lo, pb)

load_document_by_string(string, uri, lo, id_, load_all, pb) ==
    LET r == load_document_by_yaml(yaml_load(string.text), uri, lo, id_, load_all, pb)
    IN  [r EXCEPT !.doc = string]

load_document(d, baseuri, lo, id_, load_all, pb) ==
    LET uri == IF baseuri = None THEN CwdUri ELSE baseuri
    IN  IF d.tag = "str"
        THEN load_document_by_string(d, uri, lo, id_, FALSE, pb)
        ELSE load_document_by_yaml(d, uri, lo, id_, load_all, pb)

(***************************************************************************)
(* The loader's state machine: a caller holding a document and arguments   *)
(* makes one call.                                                         *)
(***************************************************************************)
BaseUris == {None, "file:///base/"}
LoadingOptionsArgs == {None, "opts"}

Args == [baseuri : BaseUris, lo : LoadingOptionsArgs, id_ : IdArgs,
         load_all : BOOLEAN, pb : ParserBehaviours]

NoOutcome == [exc |-> NoExc, msg |-> None, result |-> NoResult]

SaveIdle == sval = [tag |-> "none"] /\ stop = FALSE
            /\ sout = [done |-> FALSE, exc |-> NoExc, val |-> [tag |-> "none"]]
TravIdle == store = <<>> /\ top = 0 /\ stack = <<>> /\ out = <<>>
            /\ visits = <<>> /\ status = "idle"

Init ==
    /\ pc = "ready"
    /\ fn = None
    /\ doc \in Docs
    /\ doc0 = doc
    /\ args \in Args
    /\ outcome = NoOutcome
    /\ calls = <<>>
    /\ SaveIdle
    /\ TravIdle

Returned(name, r) ==
    /\ pc' = "returned"
    /\ fn' = name
    /\ doc' = r.doc
    /\ outcome' = [exc |-> r.exc, msg |-> r.msg, result |-> r.result]
    /\ calls' = r.calls
    /\ UNCHANGED <<doc0, args, sval, stop, sout, store, top, stack, out, visits, status>>

CallCwlVersion ==
    /\ pc = "ready"
    /\ LET v == cwl_version(doc)
       IN  Returned("cwl_version",
                    [exc |-> v.exc, msg |-> v.msg, calls |-> <<>>, doc |-> doc,
                     result |-> IF v.exc = NoExc
                                THEN [kind |-> "value", val |-> v.val] ELSE NoResult])

CallLoadDocumentByYaml ==
    /\ pc = "ready"
    /\ args.baseuri # None
    /\ Returned("load_document_by_yaml",
                load_document_by_yaml(doc, args.baseuri, args.lo, args.id_,
                                      args.load_all, args.pb))

CallLoadDocumentByString ==
    /\ pc = "ready"
    /\ args.baseuri # None
    /\ doc.tag = "str"
    /\ Returned("load_document_by_string",
                load_document_by_string(doc, args.baseuri, args.lo, args.id_,
                                        args.load_all, args.pb))

CallLoadDocument ==
    /\ pc = "ready"
    /\ Returned("load_document",
                load_document(doc, args.baseuri, args.lo, args.id_,
                              args.load_all, args.pb))

Next ==
    \/ CallCwlVersion
    \/ CallLoadDocumentByYaml
    \/ CallLoadDocumentByString
    \/ CallLoadDocument

Spec == Init /\ [][Next]_vars

(***************************************************************************)
(* save, is_process and version_split.  A Saveable object is               *)
(* [tag |-> "obj", proc, class, ver]: proc says whether it is a Process,   *)
(* ver is its cwlVersion as [some, val], val a sequence of characters.     *)
(***************************************************************************)
MaxSeqLen == 2

Chars(v) ==
    CASE v = "v1.0" -> <<"v", "1", ".", "0">>
      [] v = "v1.2" -> <<"v", "1", ".", "2">>
      [] v = "v1.10" -> <<"v", "1", ".", "1", "0">>
      [] v = "v1.0.dev4" -> <<"v", "1", ".", "0", ".", "d", "e", "v", "4">>

NoVer == [some |-> FALSE, val |-> <<>>]
Ver(v) == [some |-> TRUE, val |-> Chars(v)]
ObjectVersions == {NoVer} \cup {Ver(v) : v \in {"v1.0", "v1.2", "v1.10", "v1.0.dev4"}}

Saveables ==
    {[tag |-> "obj", proc |-> TRUE, class |-> "Workflow", ver |-> v] : v \in ObjectVersions}
    \cup {[tag |-> "obj", proc |-> FALSE, class |-> "File", ver |-> NoVer]}
Scalars == {[tag |-> "scalar", v |-> 7]}
PySeq(items) == [tag |-> "seq", items |-> items]
Leaves == Saveables \cup Scalars
SeqValues == {PySeq(x) : x \in Seqs(Leaves, MaxSeqLen)}
MapValues == {PyMap([k \in {"k"} |-> x]) : x \in Leaves \cup SeqValues}
           \cup {PyMap([k \in {"k", "l"} |-> IF k = "k" THEN x ELSE PyNone]) : x \in Saveables}
NestedValues == {PySeq(<<PySeq(x)>>) : x \in Seqs(Saveables, 1)}
SaveValues == Leaves \cup SeqValues \cup NestedValues \cup MapValues \cup {PyNone}

\* Saveable.save(top=top, ...) of the generated classes: a mapping with the
\* class, the cwlVersion when the object has one, and $namespaces when top
SavedForm(o, t) ==
    PyMap((IF o.ver.some THEN "cwlVersion" :> o.ver.val ELSE <<>>)
          @@ (IF t THEN "$namespaces" :> "ns" ELSE <<>>)
          @@ ("class" :> o.class))

is_process(v) == v.tag = "obj" /\ v.proc

Digit(c) ==
    CASE c = "0" -> 0 [] c = "1" -> 1 [] c = "2" -> 2 [] c = "3" -> 3 [] c = "4" -> 4
      [] c = "5" -> 5 [] c = "6" -> 6 [] c = "7" -> 7 [] c = "8" -> 8 [] c = "9" -> 9
      [] OTHER -> -1

RECURSIVE SplitOn(_, _, _)
\* s.split(c), cur being the component read so far
SplitOn(s, c, cur) ==
    IF s = <<>> THEN <<cur>>
    ELSE IF Head(s) = c THEN <<cur>> \o SplitOn(Tail(s), c, <<>>)
    ELSE SplitOn(Tail(s), c, Append(cur, Head(s)))

RECURSIVE IntOf(_, _)
\* int(s) for a string of decimal digits, acc being the value read so far
IntOf(s, acc) == IF s = <<>> THEN acc ELSE IntOf(Tail(s), 10 * acc + Digit(Head(s)))

\* whether int(s) raises ValueError
IntFails(s) == s = <<>> \/ \E i \in 1..Len(s) : Digit(s[i]) < 0

\* [exc, val]: the numerical components of a cwlVersion value
version_split(version) ==
    LET parts == SplitOn(Tail(version), ".", <<>>)
    IN  IF \E i \in 1..Len(parts) : IntFails(parts[i])
        THEN [exc |-> "ValueError", val |-> <<>>]
        ELSE [exc |-> NoExc, val |-> [i \in 1..Len(parts) |-> IntOf(parts[i], 0)]]

RECURSIVE ListLess(_, _)
\* a < b for Python lists of integers
ListLess(a, b) ==
    IF b = <<>> THEN FALSE
    ELSE IF a = <<>> THEN TRUE
    ELSE IF Head(a) # Head(b) THEN Head(a) < Head(b)
    ELSE ListLess(Tail(a), Tail(b))

RECURSIVE MaxFrom(_, _, _)
\* max(xs, key=version_split), best being the greatest of xs[1..i-1]
MaxFrom(xs, i, best) ==
    IF i > Len(xs) THEN best
    ELSE IF ListLess(version_split(best).val, version_split(xs[i]).val)
    THEN MaxFrom(xs, i + 1, xs[i])
    ELSE MaxFrom(xs, i + 1, best)

\* [exc, val]: max() of the versions that are not None, by version_split
MaxVersion(xs) ==
    IF xs = <<>> THEN [exc |-> "ValueError", val |-> <<>>]
    ELSE IF \E i \in 1..Len(xs) : version_split(xs[i]).exc # NoExc
    THEN [exc |-> "ValueError", val |-> <<>>]
    ELSE [exc |-> NoExc, val |-> MaxFrom(xs, 2, xs[1])]

\* e.get("cwlVersion")
GetVersion(e) ==
    IF "cwlVersion" \in DOMAIN e.m THEN [some |-> TRUE, val |-> e.m["cwlVersion"]]
    ELSE NoVer

RECURSIVE NotNone(_)
\* (v for v in vers if v is not None)
NotNone(vers) ==
    IF vers = <<>> THEN <<>>
    ELSE (IF Head(vers).some THEN <<Head(vers).val>> ELSE <<>>) \o NotNone(Tail(vers))

RECURSIVE save(_, _)
\* [exc, val]
save(val, t) ==
    IF val.tag = "obj" THEN [exc |-> NoExc, val |-> SavedForm(val, t)]
    ELSE IF val.tag = "seq"
    THEN LET rs == [i \in 1..Len(val.items) |-> save(val.items[i], t)]
             lst == [i \in 1..Len(val.items) |-> rs[i].val]
         IN  IF \E i \in 1..Len(rs) : rs[i].exc # NoExc
             THEN [exc |-> "ValueError", val |-> PyNone]
             ELSE IF t /\ \A i \in 1..Len(val.items) : is_process(val.items[i])
             THEN LET vers == [i \in 1..Len(lst) |-> GetVersion(lst[i])]
                      latest == MaxVersion(NotNone(vers))
                  IN  IF latest.exc # NoExc THEN [exc |-> latest.exc, val |-> PyNone]
                      ELSE [exc |-> NoExc,
                            val |-> PyMap(("cwlVersion" :> latest.val)
                                          @@ ("$graph" :> PySeq(lst)))]
             ELSE [exc |-> NoExc, val |-> PySeq(lst)]
    ELSE IF val.tag = "map"
    THEN LET rs == [k \in DOMAIN val.m |-> save(val.m[k], FALSE)]
         IN  IF \E k \in DOMAIN rs : rs[k].exc # NoExc
             THEN [exc |-> "ValueError", val |-> PyNone]
             ELSE [exc |-> NoExc, val |-> PyMap([k \in DOMAIN val.m |-> rs[k].val])]
    ELSE [exc |-> NoExc, val |-> val]

LoaderIdle == pc = "idle" /\ fn = None /\ doc = PyNone /\ doc0 = PyNone
              /\ args = None /\ outcome = NoOutcome /\ calls = <<>>

InitSave ==
    /\ sval \in SaveValues
    /\ stop \in BOOLEAN
    /\ sout = [done |-> FALSE, exc |-> NoExc, val |-> PyNone]
    /\ LoaderIdle
    /\ TravIdle

CallSave ==
    /\ ~sout.done
    /\ LET r == save(sval, stop)
       IN  sout' = [done |-> TRUE, exc |-> r.exc, val |-> r.val]
    /\ UNCHANGED <<sval, stop, pc, fn, doc, doc0, args, outcome, calls,
                   store, top, stack, out, visits, status>>

NextSave == CallSave

SpecSave == InitSave /\ [][NextSave]_vars

(***************************************************************************)
(* cite_extract: the walk over a loaded process tree.  The processes are   *)
(* named by Procs; a step's run is another process, given inline or by a   *)
(* URI that load_document resolves.  An inline run is an object nested in  *)
(* its step, so inline references lead to later names only; a URI may name *)
(* any process.  A node's id is <<p, 0>> for process p and <<p, k>> for    *)
(* the k-th step of workflow p.                                            *)
(***************************************************************************)
MaxEdges == 3
\* the interpreter's recursion limit, in frames of traverse and traverse_workflow
\* (scaled down; no walk over distinct processes of Procs needs more frames)
RecursionLimit == 6

Procs == {1, 2, 3}

SoftwareRequirement(pkgs) == [class |-> "SoftwareRequirement", packages |-> pkgs]
DockerRequirement == [class |-> "DockerRequirement", packages |-> <<>>]

\* the requirements and hints of process p
ProcessReqs(p) ==
    CASE p = 1 -> [requirements |-> <<DockerRequirement, SoftwareRequirement(<<"a", "b">>)>>,
                   hints |-> <<SoftwareRequirement(<<"c">>)>>]
      [] p = 2 -> [requirements |-> <<>>,
                   hints |-> <<DockerRequirement, SoftwareRequirement(<<"d">>),
                               SoftwareRequirement(<<>>)>>]
      [] OTHER -> [requirements |-> <<SoftwareRequirement(<<"e">>)>>, hints |-> <<>>]

\* the requirements and hints of the k-th step of a workflow
StepReqs(k) ==
    IF k % 2 = 1
    THEN [requirements |-> <<SoftwareRequirement(<<"s">>)>>,
          hints |-> <<SoftwareRequirement(<<"h">>)>>]
    ELSE [requirements |-> <<>>, hints |-> <<>>]

Edges == {e \in [from : Procs, to : Procs, uri : BOOLEAN] : e.uri \/ e.from < e.to}
LeafClasses == {"CommandLineTool", "Workflow"}

RECURSIVE StepsOf(_, _, _)
\* the steps of workflow p: the edges leaving p, in order, k steps found so far
StepsOf(es, p, k) ==
    IF es = <<>> THEN <<>>
    ELSE IF Head(es).from = p
    THEN <<[id |-> <<p, k + 1>>,
            requirements |-> StepReqs(k + 1).requirements,
            hints |-> StepReqs(k + 1).hints,
            run |-> [uri |-> Head(es).uri, proc |-> Head(es).to]]>>
         \o StepsOf(Tail(es), p, k + 1)
    ELSE StepsOf(Tail(es), p, k)

ProcessObject(es, leaf, p) ==
    LET steps == StepsOf(es, p, 0)
    IN  [id |-> <<p, 0>>,
         class |-> IF steps # <<>> THEN "Workflow" ELSE leaf,
         requirements |-> ProcessReqs(p).requirements,
         hints |-> ProcessReqs(p).hints,
         steps |-> steps]

IdLine(node) == [ev |-> "id", node |-> node.id, pkg |-> ""]
PackageLine(name) == [ev |-> "pkg", node |-> <<0, 0>>, pkg |-> name]

RECURSIVE OfClass(_, _)
\* the members of reqs whose class is c, in order
OfClass(reqs, c) ==
    IF reqs = <<>> THEN <<>>
    ELSE (IF Head(reqs).class = c THEN <<Head(reqs)>> ELSE <<>>) \o OfClass(Tail(reqs), c)

extract_software_reqs_hints_first(process) ==
    OfClass(process.hints, "SoftwareRequirement")
    \o OfClass(process.requirements, "SoftwareRequirement")

extract_software_reqs(process) ==
    OfClass(process.requirements, "SoftwareRequirement")
    \o OfClass(process.hints, "SoftwareRequirement")

\* the lines process_software_requirement(req) prints
process_software_requirement(req) ==
    [i \in 1..Len(req.packages) |-> PackageLine(req.packages[i])]

RECURSIVE PrintReqs(_, _)
PrintReqs(process, reqs) ==
    IF reqs = <<>> THEN <<>>
    ELSE <<IdLine(process)>> \o process_software_requirement(Head(reqs))
         \o PrintReqs(process, Tail(reqs))

\* the lines extract_software_packages(process) prints
extract_software_packages(process) == PrintReqs(process, extract_software_reqs(process))

get_process_from_step_self(workflow, step) == workflow.id[1]

\* the name of the process the step runs (loaded from the URI when run is a string)
get_process_from_step(workflow, step) == step.run.proc

TraverseFrame(p) == [fn |-> "traverse", proc |-> p, i |-> 0]
WorkflowFrame(p) == [fn |-> "traverse_workflow", proc |-> p, i |-> 1]

Top == stack[Len(stack)]
Pop == SubSeq(stack, 1, Len(stack) - 1)
ReplaceTop(f) == Append(Pop, f)

InitTrav ==
    /\ \E es \in Seqs(Edges, MaxEdges), leaf \in LeafClasses :
         store = [p \in Procs |-> ProcessObject(es, leaf, p)]
    /\ top \in Procs
    /\ stack = <<TraverseFrame(top)>>
    /\ out = <<>>
    /\ visits = [p \in Procs |-> 0]
    /\ status = "run"
    /\ LoaderIdle
    /\ SaveIdle

Untouched == UNCHANGED <<store, top, pc, fn, doc, doc0, args, outcome, calls,
                         sval, stop, sout>>

\* traverse(process), lines 48-51: report the process, then call
\* traverse_workflow when it is a Workflow
TraverseEnter ==
    /\ status = "run"
    /\ Top.fn = "traverse" /\ Top.i = 0
    /\ out' = out \o extract_software_packages(store[Top.proc])
    /\ visits' = [visits EXCEPT ![Top.proc] = @ + 1]
    /\ IF store[Top.proc].class = "Workflow"
       THEN IF Len(stack) + 1 > RecursionLimit
            THEN status' = "RecursionError" /\ stack' = stack
            ELSE /\ stack' = Append(ReplaceTop([Top EXCEPT !.i = 1]),
                                    WorkflowFrame(Top.proc))
                 /\ status' = status
       ELSE /\ stack' = Pop
            /\ status' = IF Pop = <<>> THEN "done" ELSE status
    /\ Untouched

\* traverse() returning after traverse_workflow
TraverseReturn ==
    /\ status = "run"
    /\ Top.fn = "traverse" /\ Top.i = 1
    /\ stack' = Pop
    /\ status' = IF Pop = <<>> THEN "done" ELSE status
    /\ UNCHANGED <<out, visits>>
    /\ Untouched

\* one iteration of the loop of traverse_workflow, lines 61-63
TraverseWorkflowStep ==
    /\ status = "run"
    /\ Top.fn = "traverse_workflow"
    /\ Top.i <= Len(store[Top.proc].steps)
    /\ LET step == store[Top.proc].steps[Top.i]
       IN  /\ out' = out \o extract_software_packages(step)
           /\ IF Len(stack) + 1 > RecursionLimit
              THEN status' = "RecursionError" /\ stack' = stack
              ELSE /\ stack' = Append(ReplaceTop([Top EXCEPT !.i = @ + 1]),
                                      TraverseFrame(get_process_from_step(store[Top.proc], step)))
                   /\ status' = status
    /\ UNCHANGED visits
    /\ Untouched

\* the loop of traverse_workflow is exhausted
TraverseWorkflowReturn ==
    /\ status = "run"
    /\ Top.fn = "traverse_workflow"
    /\ Top.i > Len(store[Top.proc].steps)
    /\ stack' = Pop
    /\ UNCHANGED <<out, visits, status>>
    /\ Untouched

NextTrav ==
    \/ TraverseEnter
    \/ TraverseReturn
    \/ TraverseWorkflowStep
    \/ TraverseWorkflowReturn

SpecTrav == InitTrav /\ [][NextTrav]_vars

\* a sequential program: the walk takes its next step whenever it has one
SpecTravFair == InitTrav /\ [][NextTrav]_vars /\ WF_vars(NextTrav)

(***************************************************************************)
(* Claims about the loader.                                                *)
(***************************************************************************)
ByYaml == pc = "returned" /\ fn = "load_document_by_yaml"
GivenMapping == doc0.tag = "map"
Recognised(v) == v \in {"v1.0", "v1.1", "v1.2"}
DeclaredRecognised == GivenMapping /\ HasKey(doc0, "cwlVersion")
                      /\ Recognised(doc0.m["cwlVersion"])
\* the top-level version of the given mapping, None when it declares none
TopVersion == IF HasKey(doc0, "cwlVersion") THEN doc0.m["cwlVersion"] ELSE None
Wanted == IF args.id_.some THEN args.id_.val ELSE Main
\* the positions of the given $graph whose stripped id is the requested one
Hits == {i \in 1..Len(doc0.m["$graph"]) : lstrip(doc0.m["$graph"][i].id, "#") = Wanted}
GraphSelect == GivenMapping /\ HasKey(doc0, "$graph") /\ ~args.load_all
TargetMissing == GraphSelect /\ Hits = {}
ParserNamed(v) ==
    CASE v = "v1.0" -> "cwl_v1_0" [] v = "v1.1" -> "cwl_v1_1" [] v = "v1.2" -> "cwl_v1_2"

\* C1 (as stated): every mapping document declaring v1.0, v1.1 or v1.2 is
\* forwarded to exactly one versioned parser, the one of its version.
C1_ExactlyOneParser ==
    (ByYaml /\ DeclaredRecognised) =>
        /\ Len(calls) = 1
        /\ calls[1].parser = ParserNamed(doc0.m["cwlVersion"])

\* C1 (amended): such a document is forwarded to the parser of its declared
\* version only and at most once, and exactly once unless it is a $graph
\* container loaded with load_all false in which no element has the requested
\* id: then GraphTargetMissingException is raised and no parser is called.
C1_ParserOfDeclaredVersion ==
    (ByYaml /\ DeclaredRecognised) =>
        /\ \A i \in 1..Len(calls) : calls[i].parser = ParserNamed(doc0.m["cwlVersion"])
        /\ IF TargetMissing
           THEN calls = <<>> /\ outcome.exc = "GraphTargetMissingException"
           ELSE Len(calls) = 1

C1_Witness ==
    /\ ByYaml /\ DeclaredRecognised /\ GraphSelect
    /\ doc0.m["cwlVersion"] = "v1.1"
    /\ Len(calls) = 1 /\ calls[1].parser = "cwl_v1_1"
    /\ outcome.exc = NoExc

\* C2: with $graph and load_all false only the first element whose stripped id
\* is the requested one is loaded, with its cwlVersion set to the top-level
\* version; with no such element GraphTargetMissingException is raised and no
\* parser is called; with load_all the container is forwarded unchanged.
C2_GraphSelection ==
    (ByYaml /\ GivenMapping /\ HasKey(doc0, "$graph")) =>
        /\ Len(calls) <= 1
        /\ Recognised(TopVersion) /\ ~TargetMissing => Len(calls) = 1
        /\ IF args.load_all
           THEN /\ doc = doc0
                /\ \A i \in 1..Len(calls) : calls[i].yaml = doc0
           ELSE IF Hits = {}
           THEN /\ outcome.exc = "GraphTargetMissingException"
                /\ calls = <<>>
                /\ doc = doc0
           ELSE LET k == CHOOSE i \in Hits : \A j \in Hits : i <= j
                    el == doc.m["$graph"][k]
                IN  /\ el = ("cwlVersion" :> TopVersion) @@ doc0.m["$graph"][k]
                    /\ \A i \in 1..Len(doc0.m["$graph"]) :
                         i # k => doc.m["$graph"][i] = doc0.m["$graph"][i]
                    /\ \A i \in 1..Len(calls) : calls[i].yaml = PyMap(el)

C2_Witness ==
    /\ ByYaml /\ GraphSelect
    /\ Cardinality(Hits) = 2
    /\ doc0.m["$graph"][1].class # doc0.m["$graph"][2].class
    /\ Len(calls) = 1
    /\ calls[1].yaml.m["class"] = doc0.m["$graph"][1].class
    /\ calls[1].yaml.m["cwlVersion"] = "v1.2"

C4_CwlVersion ==
    (pc = "returned" /\ fn = "cwl_version") =>
        /\ doc = doc0
        /\ IF doc0.tag # "map"
           THEN outcome.exc = "ValidationException" /\ outcome.result = NoResult
           ELSE /\ outcome.exc = NoExc
                /\ outcome.result.kind = "value"
                /\ outcome.result.val = IF "cwlVersion" \in DOMAIN doc0.m
                                        THEN doc0.m["cwlVersion"] ELSE None

C4_Witness ==
    /\ pc = "returned" /\ fn = "cwl_version"
    /\ doc0.tag = "list"
    /\ outcome.exc = "ValidationException"

\* C7: load_document gives the same outcome for a serialized string as for
\* the YAML object the string parses to, whatever the other arguments.
C7_StringLikeObject ==
    (pc = "returned" /\ fn = "load_document" /\ doc0.tag = "str") =>
        LET r == load_document(yaml_load(doc0.text), args.baseuri, args.lo,
                               args.id_, args.load_all, args.pb)
        IN  /\ outcome = [exc |-> r.exc, msg |-> r.msg, result |-> r.result]
            /\ calls = r.calls

\* C8: a sequence returned by the versioned parser comes back as a list of
\* the same length and order in which exactly the elements that have a
\* cwlVersion attribute carry the document's declared version, the others
\* being untouched; a single object comes back as it is.
C8_ResultVersions ==
    (ByYaml /\ Len(calls) = 1 /\ calls[1].ret.exc = NoExc) =>
        LET got == calls[1].ret.result
        IN  /\ outcome.exc = NoExc
            /\ IF got.kind = "list"
               THEN /\ outcome.result.kind = "list"
                    /\ Len(outcome.result.items) = Len(got.items)
                    /\ \A i \in 1..Len(got.items) :
                         outcome.result.items[i] =
                            IF "cwlVersion" \in got.items[i].attrs
                            THEN [got.items[i] EXCEPT !.cwlVersion = TopVersion]
                            ELSE got.items[i]
               ELSE outcome.result = got

C8_Witness ==
    /\ ByYaml /\ Len(calls) = 1 /\ calls[1].ret.exc = NoExc
    /\ calls[1].ret.result.kind = "list"
    /\ Len(outcome.result.items) = 2
    /\ "cwlVersion" \in outcome.result.items[1].attrs
    /\ calls[1].ret.result.items[1].cwlVersion = None
    /\ outcome.result.items[1].cwlVersion = "v1.0"
    /\ "cwlVersion" \notin outcome.result.items[2].attrs
    /\ outcome.result.items[2].cwlVersion = None

(***************************************************************************)
(* Claims about save.                                                      *)
(***************************************************************************)
AllProcess == \A i \in 1..Len(sval.items) :
                 sval.items[i].tag = "obj" /\ sval.items[i].proc
\* the saved form of each element of the given sequence, in order
SavedElements == [i \in 1..Len(sval.items) |-> save(sval.items[i], stop).val]
\* the cwlVersion values carried by the saved elements
PresentVersions == {SavedElements[i].m["cwlVersion"] :
                      i \in {j \in 1..Len(sval.items) :
                               "cwlVersion" \in DOMAIN SavedElements[j].m}}
\* v is not above w under numeric comparison of the components
NotAbove(v, w) == ~ListLess(version_split(w).val, version_split(v).val)

\* C5: save with top=True of a sequence of Process objects returns
\* {"cwlVersion": latest, "$graph": lst}, lst the saved elements in order and
\* latest the numerically greatest cwlVersion among them; with top false or a
\* non-Process element it returns the plain list lst.
C5_SaveSequence ==
    (sout.done /\ sval.tag = "seq") =>
        /\ sout.exc = NoExc
        /\ IF stop /\ AllProcess
           THEN /\ sout.val.tag = "map"
                /\ DOMAIN sout.val.m = {"cwlVersion", "$graph"}
                /\ sout.val.m["$graph"] = PySeq(SavedElements)
                /\ sout.val.m["cwlVersion"] \in PresentVersions
                /\ \A v \in PresentVersions : NotAbove(v, sout.val.m["cwlVersion"])
           ELSE sout.val = PySeq(SavedElements)

\* C9: save returns without raising for every value built from Saveable
\* objects, sequences, mappings and scalars; a mapping gives a new mapping of
\* the same keys with the values saved with top=False (a nested sequence of
\* Process objects stays a list), and any other value is returned unchanged.
C9_SaveNeverRaises ==
    sout.done =>
        /\ sout.exc = NoExc
        /\ sval.tag = "map" =>
             /\ sout.val.tag = "map"
             /\ DOMAIN sout.val.m = DOMAIN sval.m
             /\ \A k \in DOMAIN sval.m :
                  /\ sout.val.m[k] = save(sval.m[k], FALSE).val
                  /\ sval.m[k].tag = "seq" => sout.val.m[k].tag = "seq"
        /\ sval.tag \notin {"obj", "seq", "map"} => sout.val = sval

(***************************************************************************)
(* Claims about the walk.                                                  *)
(***************************************************************************)
\* the processes the steps of p run
Children(p) == {store[p].steps[k].run.proc : k \in 1..Len(store[p].steps)}

RECURSIVE Closure(_, _)
\* S with everything reachable from it in at most n steps
Closure(S, n) ==
    IF n = 0 THEN S ELSE Closure(S \cup UNION {Children(p) : p \in S}, n - 1)

Reachable == Closure({top}, Cardinality(Procs))
\* some workflow reachable from the top is reachable from itself
CyclicFromTop ==
    \E q \in Reachable : q \in Closure(Children(q), Cardinality(Procs))

IsSoftwareRequirement(r) == r.class = "SoftwareRequirement"

RECURSIVE Flatten(_)
Flatten(ss) == IF ss = <<>> THEN <<>> ELSE Head(ss) \o Flatten(Tail(ss))

\* what a node is to print: for each SoftwareRequirement among its
\* requirements, then among its hints, its id and then the packages
ExpectedNode(node) ==
    LET rs == SelectSeq(node.requirements, IsSoftwareRequirement)
              \o SelectSeq(node.hints, IsSoftwareRequirement)
    IN  Flatten([i \in 1..Len(rs) |->
                   <<[ev |-> "id", node |-> node.id, pkg |-> ""]>>
                   \o [j \in 1..Len(rs[i].packages) |->
                         [ev |-> "pkg", node |-> <<0, 0>>, pkg |-> rs[i].packages[j]]]])

RECURSIVE ExpectedTree(_, _)
\* the pre-order output of the tree below p, down to the given number of levels
ExpectedTree(p, levels) ==
    ExpectedNode(store[p])
    \o IF store[p].class = "Workflow" /\ levels > 0
       THEN Flatten([k \in 1..Len(store[p].steps) |->
                       ExpectedNode(store[p].steps[k])
                       \o ExpectedTree(store[p].steps[k].run.proc, levels - 1)])
       ELSE <<>>

IsPrefix(a, b) == Len(a) <= Len(b) /\ SubSeq(b, 1, Len(a)) = a

\* more levels than the recursion limit lets a walk descend
Levels == RecursionLimit \div 2 + 1

\* C6: the walk is in pre-order: a process's own software requirements, then
\* for each step in order the step's requirements followed by the walk of the
\* process it runs; per node requirements before hints and the node's id
\* right before each requirement's packages; every process reachable through
\* steps is visited and nothing below a non-workflow.
C6_PreOrder ==
    status # "idle" =>
        /\ IsPrefix(out, ExpectedTree(top, Levels))
        /\ status = "done" =>
             /\ out = ExpectedTree(top, Levels)
             /\ \A p \in Procs : visits[p] > 0 <=> p \in Reachable

C6_Witness ==
    /\ status = "done"
    /\ store[top].class = "Workflow" /\ Len(store[top].steps) = 2
    /\ \E p \in Children(top) : p # top /\ store[p].class = "Workflow"
                                /\ store[p].steps # <<>>
    /\ \E i, j \in 1..Len(out) :
         /\ i < j
         /\ out[i].ev = "pkg" /\ out[i].pkg = "b"
         /\ out[j].ev = "pkg" /\ out[j].pkg = "c"

RECURSIVE Paths(_, _)
\* the number of paths along steps from q to p
Paths(q, p) ==
    LET below == [k \in 1..Len(store[q].steps) |-> <<Paths(store[q].steps[k].run.proc, p)>>]
        counts == Flatten(below)
        Sum[i \in 0..Len(counts)] == IF i = 0 THEN 0 ELSE Sum[i - 1] + counts[i]
    IN  (IF q = p THEN 1 ELSE 0) + Sum[Len(counts)]

Finished == status = "done" /\ \A p \in Procs : visits[p] = Paths(top, p)

\* C10 (as stated): from any top process the walk eventually finishes, each
\* process visited once per path from the top, also when a step refers back
\* to a workflow already on the current path.
C10_AlwaysTerminates == <>Finished

\* C10 (amended): the walk eventually finishes, each process visited once per
\* path from the top, whenever no workflow reachable from the top process is
\* reachable from itself.
C10_AcyclicTerminates == ~CyclicFromTop => <>Finished

C10_Witness ==
    /\ Finished
    /\ ~CyclicFromTop
    /\ \E p \in Procs : visits[p] = 2
    /\ \E p \in Procs : p # top /\ store[p].class = "Workflow" /\ visits[p] > 0

====
